---- MODULE Spec2Model ----
(***************************************************************************)
(* The chat session/transport manager of the frontend: the ChatInterface   *)
(* component (frontend/src/components/chat/ChatInterface.tsx) together     *)
(* with createChatWebSocket and sendChatMessage of the API client.         *)
(*                                                                         *)
(* React state (useState) and refs (useRef) are the variables.  One action *)
(* is one callback of the component: a WebSocket callback, a timer, the    *)
(* completion of the HTTP call, or a user command.  A callback that        *)
(* changes threadId or useHttpFallback changes the identity of `connect`   *)
(* (useCallback deps, line 118), so the effect of lines 121-126 runs its   *)
(* cleanup and calls the new connect(): that is part of the same action.   *)
(*                                                                         *)
(* setMessages(prev => ...) hands React an updater; React runs it when it  *)
(* renders, not when the WebSocket callback returns.  The updaters of the  *)
(* WebSocket message handlers are therefore queued (updQ) and applied by   *)
(* Render, which may come after further message events of the same burst.  *)
(*                                                                         *)
(* Left out: message ids and timestamps (nothing reads them), scrollRef,   *)
(* and the `input` state, whose value reaches sendMessage as the parameter *)
(* of SendMessage.                                                         *)
(***************************************************************************)
EXTENDS Integers, Sequences, FiniteSets, Bags, TLC

VARIABLES
    messages,           \* useState<Message[]>            line 14
    isLoading,          \* useState(false)                line 16
    connectionStatus,   \* useState<ConnectionStatus>     line 17
    useHttpFallback,    \* useState(false)                line 18
    threadId,           \* useState<string | null>        line 19
    responseRef,        \* useRef<string>('')             line 22
    reconnectAttempts,  \* useRef(0)                      line 23
    socks,              \* the WebSockets that have not closed yet (a bag); the one
                        \* wsRef.current (line 20) refers to is marked cur
    timers,             \* pending setTimeout(() => connect(), 1000): the bag of the
                        \* threadIds their connect closures captured
    http,               \* sendChatMessage calls in flight
    updQ,               \* setMessages updaters React has not run yet
    life,               \* "new" | "mounted" | "unmounted"
    lim,                \* the budget of the run: sockets alive, timers pending,
                        \* messages listed
    reply,              \* history: the reply to the last accepted streaming send
    pend,               \* history: accepted sends whose reply has not had its
                        \* terminal signal (done, error event, end of the HTTP call)
    errRun,             \* history: whether no socket has opened yet (d), transport
                        \* errors since the last open (o), and
                        \* since the last open or session event (s)
    lastOp              \* history: the callback that ran last, and its outcome

vars == <<messages, isLoading, connectionStatus, useHttpFallback, threadId,
          responseRef, reconnectAttempts, socks, timers, http, updQ, life, lim,
          reply, pend, errRun, lastOp>>

\* ------------------------------------------------------------------ bounds
MaxSockets == 2     \* WebSockets alive (not yet closed) at the same time
MaxMsgs == 3        \* length of the message list
MaxLen == 2         \* token fragments of one reply
MaxBatch == 2       \* message updaters queued between two renders
MaxTimers == 2      \* reconnect timers pending at the same time

\* The message list and the connection machinery multiply each other's states,
\* so a run is given one of four budgets: all the sockets and timers and no
\* message; the whole message list with the sockets of the session handshake
\* and no reconnect timer; the whole message list with one socket and one
\* reconnect timer (the way into the HTTP fallback); one message with two
\* sockets and one reconnect timer (a send while a socket that wsRef no longer
\* refers to is alive).
Budgets ==
    { [socks |-> MaxSockets, timers |-> MaxTimers, msgs |-> 0],
      [socks |-> 2, timers |-> 0, msgs |-> MaxMsgs],
      [socks |-> 1, timers |-> 1, msgs |-> MaxMsgs],
      [socks |-> 2, timers |-> 1, msgs |-> 1] }

\* --------------------------------------------------------------- constants
maxReconnectAttempts == 2

Null == 0
SessionIds == {1}
Tids == {Null} \cup SessionIds

\* the k-th token fragment of a reply, the text of an error event, the body of
\* a unary reply, the message of a rejected unary call
Alphabet == <<"a", "b", "c", "d">>
Frag(k) == <<Alphabet[((k - 1) % Len(Alphabet)) + 1]>>
ErrText == <<"e">>
HttpReply == <<"r">>
HttpErrText == <<"m">>
\* texts the user can submit
Inputs == {<<>>, <<" ">>, <<" ", "q">>}

UMsg(c) == [role |-> "user", content |-> c]
AMsg(c) == [role |-> "assistant", content |-> c]
\* `❌ Error: ${...}`
ErrMsg(c) == AMsg(<<"!">> \o c)

mounted == life = "mounted"
alive == life # "unmounted"
\* a state setter of an unmounted component does nothing
St(old, new) == IF alive THEN new ELSE old

\* String.prototype.trim
RECURSIVE TrimLeft(_)
TrimLeft(s) == IF s # <<>> /\ Head(s) = " " THEN TrimLeft(Tail(s)) ELSE s
RECURSIVE TrimRight(_)
TrimRight(s) ==
    IF s # <<>> /\ s[Len(s)] = " " THEN TrimRight(SubSeq(s, 1, Len(s) - 1)) ELSE s
Trim(s) == TrimRight(TrimLeft(s))

\* ------------------------------------------------------------- WebSockets
\* phase: "connecting" (readyState 0), "open" (1), "closing" (2, close() called on
\* an open socket), "aborting" (2, close() called before the connection was
\* established: the browser fails the connection, so an error event precedes the
\* close event), "errored" (3, error event delivered, close event still to come).
\* A socket whose close event was delivered leaves the bag: no callback of it
\* runs again, and a wsRef.current that refers to it behaves like null (its
\* readyState is not OPEN, close() and send() do nothing).
\* tid is the thread_id of the URL, which is also the threadId the callbacks'
\* connect closure captured.  reqs counts the chat requests written to the
\* socket that the backend has not ended with done or error, pos the fragments
\* it has sent of the reply it is streaming.
createChatWebSocket(tid) ==
    [phase |-> "connecting", tid |-> tid, reqs |-> 0, pos |-> 0, cur |-> TRUE]

One(s) == SetToBag({s})
Swap(sk, s, s2) == (sk (-) One(s)) (+) One(s2)

\* a socket that can deliver no message and schedule no timer any more
Spent(s) == [s EXCEPT !.tid = Null, !.reqs = 0, !.pos = 0]

\* wsRef.current, as a set: empty when null (or closed)
Cur(sk) == {s \in BagToSet(sk) : s.cur}
IsOpen(sk) == \E s \in Cur(sk) : s.phase = "open"

\* WebSocket.close()
CloseSock(s) ==
    CASE s.phase = "open" -> Spent([s EXCEPT !.phase = "closing"])
      [] s.phase = "connecting" -> [s EXCEPT !.phase = "aborting"]
      [] OTHER -> s

\* wsRef.current?.close()
CloseRef(sk) ==
    IF Cur(sk) = {} THEN sk
    ELSE LET s == CHOOSE x \in Cur(sk) : TRUE IN Swap(sk, s, CloseSock(s))

\* wsRef.current = ws
SetRef(sk, ws) ==
    IF Cur(sk) = {} THEN sk (+) One(ws)
    ELSE LET s == CHOOSE x \in Cur(sk) : TRUE
         IN Swap(sk, s, [s EXCEPT !.cur = FALSE]) (+) One(ws)

\* connect() as created by a render whose threadId is tid and whose
\* useHttpFallback is fb, run on status st and sockets sk.  new is the thread id
\* of the connection attempt it made, -1 when it made none.
Connect(tid, fb, st, sk) ==
    IF fb THEN [st |-> St(st, "connected"), sk |-> sk, new |-> -1]
    ELSE IF IsOpen(sk) THEN [st |-> st, sk |-> sk, new |-> -1]
    ELSE [st |-> St(st, "connecting"),
          sk |-> SetRef(sk, createChatWebSocket(tid)),
          new |-> tid]

\* useEffect(..., [connect]): when threadId or useHttpFallback changed, the
\* cleanup of the previous effect runs and then the new connect().
Effect(tid0, fb0, tid1, fb1, st, sk) ==
    IF ~alive \/ (tid0 = tid1 /\ fb0 = fb1)
    THEN [st |-> st, sk |-> sk, new |-> -1]
    ELSE Connect(tid1, fb1, st, CloseRef(sk))

NoReply == [st |-> "none", base |-> 0, acc |-> <<>>, n |-> 0]
\* op: the callback; a: its outcome; conn: the thread id of the connection
\* attempt made in the step (-1: none); t: the text submitted (send), or
\* <<"again">> for a session event that follows a session event with the same id
Op(o, a, c) == [op |-> o, a |-> a, conn |-> c, t |-> <<>>]

\* -------------------------------------------------------------------- Init
Init ==
    /\ messages = <<>>
    /\ isLoading = FALSE
    /\ connectionStatus = "disconnected"
    /\ useHttpFallback = FALSE
    /\ threadId = Null
    /\ responseRef = <<>>
    /\ reconnectAttempts = 0
    /\ socks = EmptyBag
    /\ timers = EmptyBag
    /\ http = 0
    /\ updQ = <<>>
    /\ life = "new"
    /\ lim \in Budgets
    /\ reply = NoReply
    /\ pend = 0
    /\ errRun = [d |-> TRUE, o |-> 0, s |-> 0]
    /\ lastOp = Op("init", 0, -1)

\* the effect of lines 121-126 on mount
Mount ==
    /\ lim' = lim
    /\ life = "new"
    /\ life' = "mounted"
    /\ LET r == Connect(threadId, useHttpFallback, connectionStatus, socks)
       IN /\ connectionStatus' = r.st
          /\ socks' = r.sk
          /\ lastOp' = Op("mount", 0, r.new)
    /\ UNCHANGED <<pend, messages, isLoading, useHttpFallback, threadId, responseRef,
                   reconnectAttempts, timers, http, updQ, reply, errRun>>

\* the cleanup of lines 123-125 on unmount.  The state of the component is
\* gone with it (the variables of useState return to their initial values and
\* no setter changes them again); the refs, the sockets and the timers live on.
Unmount ==
    /\ lim' = lim
    /\ pend' = 0
    /\ mounted
    /\ updQ = <<>>
    /\ life' = "unmounted"
    /\ socks' = CloseRef(socks)
    /\ messages' = <<>>
    /\ isLoading' = FALSE
    /\ connectionStatus' = "disconnected"
    /\ useHttpFallback' = FALSE
    /\ threadId' = Null
    /\ http' = 0
    /\ reply' = NoReply
    /\ errRun' = [d |-> TRUE, o |-> 0, s |-> 0]
    /\ lastOp' = Op("unmount", 0, -1)
    /\ UNCHANGED <<responseRef, reconnectAttempts, timers, updQ>>

\* ------------------------------------------------- WebSocket lifecycle events
\* onOpen, lines 97-100
SockOpen(s) ==
    /\ lim' = lim
    /\ updQ = <<>>
    /\ s.phase = "connecting"
    /\ socks' = Swap(socks, s, [s EXCEPT !.phase = "open"])
    /\ connectionStatus' = St(connectionStatus, "connected")
    /\ reconnectAttempts' = 0
    /\ errRun' = [d |-> errRun.d /\ ~alive, o |-> 0, s |-> 0]
    /\ lastOp' = Op("open", 0, -1)
    /\ UNCHANGED <<pend, messages, isLoading, useHttpFallback, threadId, responseRef,
                   timers, http, updQ, life, reply>>

\* onClose, lines 101-103.  lastOp.a: 1 when the socket of wsRef closed while
\* it was open, the manager was streaming and the status was 'connected' (the
\* backend or the network ended the connection), 0 otherwise
SockClose(s) ==
    /\ lim' = lim
    /\ updQ = <<>>
    /\ s.phase \in {"open", "closing", "errored"}
    /\ socks' = socks (-) One(s)
    /\ connectionStatus' = St(connectionStatus, "disconnected")
    /\ lastOp' = Op("close",
                    IF alive /\ s.cur /\ s.phase = "open" /\ ~useHttpFallback
                       /\ connectionStatus = "connected" THEN 1 ELSE 0,
                    -1)
    /\ UNCHANGED <<pend, messages, isLoading, useHttpFallback, threadId, responseRef,
                   reconnectAttempts, timers, http, updQ, life, reply, errRun>>

\* the history counters saturate at the threshold
Up(k) == IF k < maxReconnectAttempts THEN k + 1 ELSE k

\* variant of line 107 with > for >=
GiveUpLate(n) == n > maxReconnectAttempts

\* variant of line 107 that gives up one error early
GiveUpEarly(n) == n + 1 >= maxReconnectAttempts

\* variant of line 107 that never gives up
GiveUpNever(n) == FALSE

\* line 107
GiveUp(n) == n >= maxReconnectAttempts

\* onError, lines 104-116.  lastOp.a: 1 when it switched to (or stayed in) the
\* HTTP fallback, 0 when it scheduled a reconnect
SockError(s) ==
    /\ lim' = lim
    /\ updQ = <<>>
    /\ s.phase \in {"connecting", "open", "aborting"}
    /\ LET sk0 == Swap(socks, s, Spent([s EXCEPT !.phase = "errored"]))
           n == reconnectAttempts + 1
       IN /\ reconnectAttempts' = n
          /\ IF GiveUp(n)
             THEN LET fb == St(useHttpFallback, TRUE)
                      r == Effect(threadId, useHttpFallback, threadId, fb,
                                  St(connectionStatus, "connected"), sk0)
                  IN /\ useHttpFallback' = fb
                     /\ connectionStatus' = r.st
                     /\ socks' = r.sk
                     /\ timers' = timers
                     /\ lastOp' = Op("sockerror", 1, r.new)
             ELSE /\ BagCardinality(timers) < lim.timers
                  /\ connectionStatus' = St(connectionStatus, "error")
                  /\ timers' = timers (+) One(s.tid)
                  /\ socks' = sk0
                  /\ lastOp' = Op("sockerror", 0, -1)
                  /\ UNCHANGED useHttpFallback
    /\ errRun' = IF alive THEN [errRun EXCEPT !.o = Up(@), !.s = Up(@)] ELSE errRun
    /\ UNCHANGED <<pend, messages, isLoading, threadId, responseRef, http, updQ, life,
                   reply>>

\* the timer of line 114 fires: the connect() that created the failed socket
TimerFire(t) ==
    /\ lim' = lim
    /\ updQ = <<>>
    /\ BagIn(t, timers)
    /\ timers' = timers (-) One(t)
    /\ LET r == Connect(t, FALSE, connectionStatus, socks)
       IN /\ BagCardinality(r.sk) <= lim.socks
          /\ connectionStatus' = r.st
          /\ socks' = r.sk
          /\ lastOp' = Op("timer", 0, r.new)
    /\ UNCHANGED <<pend, messages, isLoading, useHttpFallback, threadId, responseRef,
                   reconnectAttempts, http, updQ, life, reply, errRun>>

\* ------------------------------------------------- WebSocket message events
\* the updater of lines 54-72, run by React with the responseRef.current of
\* the moment it runs
TokenUpdater(prev, resp) ==
    IF prev # <<>> /\ prev[Len(prev)].role = "assistant"
    THEN [prev EXCEPT ![Len(prev)].content = resp]
    ELSE Append(prev, AMsg(resp))

\* variant of the updater of lines 80-88 that overwrites the last message
ErrorUpdaterOverwrites(prev, c) ==
    IF prev = <<>> THEN <<ErrMsg(c)>> ELSE [prev EXCEPT ![Len(prev)] = ErrMsg(c)]

\* the updater of lines 80-88
ErrorUpdater(prev, c) == Append(prev, ErrMsg(c))

\* variant in which setMessages([]) of line 92 leaves the list as it is
ApplyUpdClearKeeps(prev, u, resp) ==
    CASE u = "tok" -> TokenUpdater(prev, resp)
      [] u = "err" -> ErrorUpdater(prev, ErrText)
      [] u = "clr" -> prev

\* one queued setMessages call: the updaters of lines 54-72 and 80-88, and the
\* setMessages([]) of line 92
ApplyUpd(prev, u, resp) ==
    CASE u = "tok" -> TokenUpdater(prev, resp)
      [] u = "err" -> ErrorUpdater(prev, ErrText)
      [] u = "clr" -> <<>>

RECURSIVE Flush(_, _, _)
Flush(prev, q, resp) ==
    IF q = <<>> THEN prev ELSE Flush(ApplyUpd(prev, Head(q), resp), Tail(q), resp)

\* setMessages(updater) from a WebSocket message handler.  Only the token
\* updater reads responseRef when it runs; the result of the other two does not
\* depend on when React runs them, so with nothing queued before them they are
\* applied at once.
Pure(u) == u # "tok"
EnqMsgs(prev, q, u, resp) ==
    IF alive /\ q = <<>> /\ Pure(u) THEN ApplyUpd(prev, u, resp) ELSE prev
EnqQueue(q, u) ==
    IF alive /\ ~(q = <<>> /\ Pure(u)) THEN Append(q, u) ELSE q

\* room for one more queued updater
Room == Len(updQ) < MaxBatch /\ Len(messages) + Len(updQ) < lim.msgs

\* React renders: the queued updaters run, in order
Render ==
    /\ lim' = lim
    /\ updQ # <<>>
    /\ messages' = Flush(messages, updQ, responseRef)
    /\ updQ' = <<>>
    /\ lastOp' = Op("render", 0, -1)
    /\ UNCHANGED <<pend, isLoading, connectionStatus, useHttpFallback, threadId,
                   responseRef, reconnectAttempts, socks, timers, http, life, reply,
                   errRun>>

\* variant of line 50 that keeps the count
SessionAttemptsKept(n) == n

\* reconnectAttempts.current = 0, line 50
SessionAttempts(n) == 0

\* case 'session', lines 48-51
Session(s, id) ==
    /\ lim' = lim
    /\ updQ = <<>>
    /\ s.phase = "open"
    /\ reconnectAttempts' = SessionAttempts(reconnectAttempts)
    /\ threadId' = St(threadId, id)
    /\ LET r == Effect(threadId, useHttpFallback, threadId', useHttpFallback,
                       connectionStatus, socks)
       IN /\ BagCardinality(r.sk) <= lim.socks
          /\ connectionStatus' = r.st
          /\ socks' = r.sk
          /\ lastOp' = [Op("session", id, r.new) EXCEPT
                           !.t = IF lastOp.op = "session" /\ lastOp.a = id
                                 THEN <<"again">> ELSE <<>>]
    /\ errRun' = [errRun EXCEPT !.s = 0]
    /\ UNCHANGED <<pend, messages, isLoading, useHttpFallback, responseRef, timers, http,
                   updQ, life, reply>>

\* case 'token', lines 52-73
Token(s) ==
    /\ lim' = lim
    /\ s.phase = "open"
    /\ s.reqs > 0
    /\ s.pos < MaxLen
    /\ Room
    /\ socks' = Swap(socks, s, [s EXCEPT !.pos = @ + 1])
    /\ responseRef' = responseRef \o Frag(s.pos + 1)
    /\ updQ' = EnqQueue(updQ, "tok")
    /\ reply' = IF reply.st = "open"
                THEN [reply EXCEPT !.acc = @ \o Frag(s.pos + 1), !.n = @ + 1]
                ELSE reply
    /\ lastOp' = Op("token", 0, -1)
    /\ UNCHANGED <<pend, messages, isLoading, connectionStatus, useHttpFallback,
                   threadId,                    reconnectAttempts, timers, http, life, errRun>>

\* case 'done', lines 74-77
Done(s) ==
    /\ lim' = lim
    /\ pend' = IF alive /\ pend > 0 THEN pend - 1 ELSE pend
    /\ s.phase = "open"
    /\ s.reqs > 0
    /\ socks' = Swap(socks, s, [s EXCEPT !.reqs = @ - 1, !.pos = 0])
    /\ isLoading' = St(isLoading, FALSE)
    /\ responseRef' = <<>>
    /\ reply' = IF reply.st = "open" THEN [reply EXCEPT !.st = "done"] ELSE reply
    /\ lastOp' = Op("done", 0, -1)
    /\ UNCHANGED <<messages, connectionStatus, useHttpFallback, threadId,
                   reconnectAttempts, timers, http, updQ, life, errRun>>

\* case 'error', lines 78-90
ErrorEvent(s) ==
    /\ lim' = lim
    /\ pend' = IF alive /\ pend > 0 THEN pend - 1 ELSE pend
    /\ s.phase = "open"
    /\ s.reqs > 0
    /\ Room
    /\ socks' = Swap(socks, s, [s EXCEPT !.reqs = @ - 1, !.pos = 0])
    /\ isLoading' = St(isLoading, FALSE)
    /\ updQ' = EnqQueue(updQ, "err")
    /\ messages' = EnqMsgs(messages, updQ, "err", responseRef)
    /\ responseRef' = <<>>
    /\ reply' = IF reply.st = "open" THEN [reply EXCEPT !.st = "err"] ELSE reply
    /\ lastOp' = Op("error", 0, -1)
    /\ UNCHANGED <<connectionStatus, useHttpFallback, threadId,
                   reconnectAttempts, timers, http, life, errRun>>

\* case 'cleared', lines 91-94.  lastOp.a: 1 when the list React would have
\* rendered before the event was not empty
Cleared(s) ==
    /\ lim' = lim
    /\ s.phase = "open"
    /\ Len(updQ) < MaxBatch
    /\ updQ' = EnqQueue(updQ, "clr")
    /\ messages' = EnqMsgs(messages, updQ, "clr", responseRef)
    /\ responseRef' = <<>>
    /\ reply' = NoReply
    /\ lastOp' = Op("cleared",
                    IF Flush(messages, updQ, responseRef) # <<>> THEN 1 ELSE 0, -1)
    /\ UNCHANGED <<pend, isLoading, connectionStatus, useHttpFallback, threadId,
                   reconnectAttempts, socks, timers, http, life, errRun>>

\* variant of the switch with a default case that ends the reply as 'done' does
UnhandledEndsReply(l) == FALSE

\* isLoading after an event no case of the switch of lines 47-95 matches (the
\* switch has no default), or after a payload whose JSON.parse threw (the catch
\* of part_002 lines 154-156 logs and returns, onMessage is not called)
Unhandled(l) == l

\* an 'images' event (no case of the switch, k = 1) or a payload JSON.parse
\* rejects (caught in ws.onmessage, k = 2)
Ignored(s, k) ==
    /\ lim' = lim
    /\ s.phase = "open"
    /\ isLoading' = St(isLoading, Unhandled(isLoading))
    /\ lastOp' = Op("ignored", k, -1)
    /\ UNCHANGED <<pend, messages, connectionStatus, useHttpFallback, threadId,
                   responseRef, reconnectAttempts, socks, timers, http, updQ, life,
                   reply, errRun>>

\* ------------------------------------------------------------ user commands
\* variants of the early returns: the connection status demanded in fallback
\* mode too; the text tested without trim(); no test of isLoading
SendRefusedStatusAlways(text) ==
    \/ Trim(text) = <<>>
    \/ isLoading
    \/ connectionStatus # "connected"
SendRefusedUntrimmed(text) ==
    \/ text = <<>>
    \/ isLoading
    \/ (~useHttpFallback /\ connectionStatus # "connected")
SendRefusedWhilePendingOnly(text) ==
    \/ Trim(text) = <<>>
    \/ (~useHttpFallback /\ connectionStatus # "connected")

\* the early returns of lines 160-161, for the text of the input field
SendRefused(text) ==
    \/ Trim(text) = <<>>
    \/ isLoading
    \/ (~useHttpFallback /\ connectionStatus # "connected")

\* wsRef.current?.send(...), line 178: the frame is written when the socket is
\* open; send() throws on a connecting socket and discards on a closing one
WsSend(sk) ==
    IF IsOpen(sk)
    THEN LET s == CHOOSE x \in Cur(sk) : TRUE
         IN Swap(sk, s, [s EXCEPT !.reqs = @ + 1])
    ELSE sk

\* sendMessage, lines 159-180, with sendMessageHttp up to its await (130-132).
\* lastOp.a: 0 refused, 1 written to the socket, 2 sent by HTTP, 3 accepted but
\* not written (the socket of wsRef is not open)
SendMessage(text) ==
    /\ lim' = lim
    /\ mounted
    /\ updQ = <<>>
    /\ IF SendRefused(text)
       THEN /\ lastOp' = [Op("send", 0, -1) EXCEPT !.t = text]
            /\ UNCHANGED <<messages, isLoading, responseRef, socks, http, reply,
                           pend>>
       ELSE /\ Len(messages) < lim.msgs
            /\ pend' = pend + 1
            /\ messages' = Append(messages, UMsg(Trim(text)))
            /\ isLoading' = TRUE
            /\ IF useHttpFallback
               THEN /\ http' = http + 1
                    /\ reply' = NoReply
                    /\ lastOp' = [Op("send", 2, -1) EXCEPT !.t = text]
                    /\ UNCHANGED <<responseRef, socks>>
               ELSE /\ responseRef' = <<>>
                    /\ socks' = WsSend(socks)
                    /\ reply' = [st |-> "open", base |-> Len(messages) + 1,
                                 acc |-> <<>>, n |-> 0]
                    /\ lastOp' = [Op("send", IF IsOpen(socks) THEN 1 ELSE 3, -1)
                                    EXCEPT !.t = text]
                    /\ UNCHANGED http
    /\ UNCHANGED <<connectionStatus, useHttpFallback, threadId, reconnectAttempts,
                   timers, updQ, life, errRun>>

\* the promise of sendChatMessage resolves, lines 133-142 and 153-155
HttpOk(id) ==
    /\ lim' = lim
    /\ pend' = IF alive /\ pend > 0 THEN pend - 1 ELSE pend
    /\ updQ = <<>>
    /\ http > 0
    /\ Len(messages) < lim.msgs
    /\ http' = http - 1
    /\ threadId' = id
    /\ messages' = Append(messages, AMsg(HttpReply))
    /\ isLoading' = FALSE
    /\ LET r == Effect(threadId, useHttpFallback, threadId', useHttpFallback,
                       connectionStatus, socks)
       IN /\ BagCardinality(r.sk) <= lim.socks
          /\ connectionStatus' = r.st
          /\ socks' = r.sk
          /\ lastOp' = Op("httpok", id, r.new)
    /\ reply' = NoReply
    /\ UNCHANGED <<useHttpFallback, responseRef, reconnectAttempts, timers, updQ,
                   life, errRun>>

\* the promise of sendChatMessage rejects, lines 143-155
HttpFail ==
    /\ lim' = lim
    /\ pend' = IF alive /\ pend > 0 THEN pend - 1 ELSE pend
    /\ updQ = <<>>
    /\ http > 0
    /\ Len(messages) < lim.msgs
    /\ http' = http - 1
    /\ messages' = Append(messages, ErrMsg(HttpErrText))
    /\ isLoading' = FALSE
    /\ reply' = NoReply
    /\ lastOp' = Op("httpfail", 0, -1)
    /\ UNCHANGED <<connectionStatus, useHttpFallback, threadId, responseRef,
                   reconnectAttempts, socks, timers, updQ, life, errRun>>

\* variant of the reset that keeps the session id
ClearStateKeepsThread(fb) == [msgs |-> <<>>, tid |-> threadId]

\* setMessages([]) and setThreadId(null), lines 184-185
ClearState(fb) == [msgs |-> <<>>, tid |-> Null]

\* variant of line 186 without the test of the mode
ClearWrittenAnyMode(fb, sk) == IsOpen(sk)

\* the condition of line 186 for writing '__clear__' to the socket
ClearWritten(fb, sk) == ~fb /\ IsOpen(sk)

\* clearSession, lines 183-189.  lastOp.a: 1 when '__clear__' was written to
\* the socket, 0 when nothing was sent
ClearSession ==
    /\ lim' = lim
    /\ mounted
    /\ updQ = <<>>
    /\ messages' = ClearState(useHttpFallback).msgs
    /\ threadId' = ClearState(useHttpFallback).tid
    /\ LET r == Effect(threadId, useHttpFallback, threadId', useHttpFallback,
                       connectionStatus, socks)
       IN /\ BagCardinality(r.sk) <= lim.socks
          /\ connectionStatus' = r.st
          /\ socks' = r.sk
          /\ lastOp' = Op("clear", IF ClearWritten(useHttpFallback, socks) THEN 1 ELSE 0,
                          r.new)
    /\ reply' = NoReply
    /\ UNCHANGED <<pend, isLoading, useHttpFallback, responseRef, reconnectAttempts,
                   timers, http, updQ, life, errRun>>

\* -------------------------------------------------------------------- Next
Next ==
    \/ Mount
    \/ Unmount
    \/ \E s \in BagToSet(socks) : SockOpen(s)
    \/ \E s \in BagToSet(socks) : SockClose(s)
    \/ \E s \in BagToSet(socks) : SockError(s)
    \/ \E t \in Tids : TimerFire(t)
    \/ \E s \in BagToSet(socks), id \in SessionIds : Session(s, id)
    \/ \E s \in BagToSet(socks) : Token(s)
    \/ \E s \in BagToSet(socks) : Done(s)
    \/ \E s \in BagToSet(socks) : ErrorEvent(s)
    \/ \E s \in BagToSet(socks) : Cleared(s)
    \/ \E s \in BagToSet(socks), k \in {1, 2} : Ignored(s, k)
    \/ Render
    \/ \E t \in Inputs : SendMessage(t)
    \/ \E id \in SessionIds : HttpOk(id)
    \/ HttpFail
    \/ ClearSession

Spec == Init /\ [][Next]_vars

\* Scheduling: the browser runs every callback that is due.  React renders its
\* queued updates, a timer that was set fires, a connection attempt ends in open
\* or in error, a socket that was closed or has failed delivers its close
\* event, the fetch of the unary call settles, and the backend ends a reply it
\* was asked for with done or error while the socket stays open.  What the
\* user does (send, clear, leaving the tab) and whether the backend or the
\* network drops an open connection is under no obligation.
FairSpec ==
    /\ Spec
    /\ WF_vars(Render)
    /\ WF_vars(\E t \in Tids : TimerFire(t))
    /\ WF_vars(\E s \in BagToSet(socks) :
                  s.phase = "connecting" /\ (SockOpen(s) \/ SockError(s)))
    /\ WF_vars(\E s \in BagToSet(socks) : s.phase = "aborting" /\ SockError(s))
    /\ WF_vars(\E s \in BagToSet(socks) :
                  s.phase \in {"closing", "errored"} /\ SockClose(s))
    /\ WF_vars((\E id \in SessionIds : HttpOk(id)) \/ HttpFail)
    /\ WF_vars(\E s \in BagToSet(socks) : Done(s) \/ ErrorEvent(s))

\* The retry chain alone: a timer that was set fires, a connection attempt
\* ends in open or in error, and a socket that has failed or was closed
\* delivers its close event.  One of them that stays due is eventually run.
Due ==
    \/ \E t \in Tids : TimerFire(t)
    \/ \E s \in BagToSet(socks) :
          s.phase = "connecting" /\ (SockOpen(s) \/ SockError(s))
    \/ \E s \in BagToSet(socks) :
          s.phase \in {"closing", "errored"} /\ SockClose(s)

RetrySpec == Spec /\ WF_vars(Due)

\* ================================================================ claims
\* the reply of the last accepted streaming send has ended and React has
\* rendered every update
Settled(st) == alive /\ reply.st = st /\ updQ = <<>>

\* C1: after an accepted streaming send, token events f1..fn (n >= 1) and done,
\* exactly one assistant message was added, directly after the user message, its
\* content is f1 + ... + fn, and no reply is pending.
C1_StreamedReply ==
    (Settled("done") /\ reply.n >= 1) =>
        /\ Len(messages) = reply.base + 1
        /\ messages[reply.base].role = "user"
        /\ messages[reply.base + 1] = AMsg(reply.acc)
        /\ ~isLoading

C3_ClearResets ==
    lastOp.op = "clear" => messages = <<>> /\ threadId = Null

\* C3: clear() ran in fallback mode with a reply pending
C3_Witness ==
    /\ lastOp.op = "clear" /\ lastOp.conn = -1
    /\ useHttpFallback /\ isLoading /\ messages = <<>> /\ threadId = Null

\* C4: after an accepted streaming send, token events f1..fn (n >= 1) and an
\* error event, the assistant message with the partial content f1 + ... + fn is
\* still in the list, followed by a separate assistant message with the error,
\* and no reply is pending.
C4_StreamError ==
    (Settled("err") /\ reply.n >= 1) =>
        /\ Len(messages) = reply.base + 2
        /\ messages[reply.base + 1] = AMsg(reply.acc)
        /\ messages[reply.base + 2] = ErrMsg(ErrText)
        /\ ~isLoading

\* the state of the manager without the history variables
prog == <<messages, isLoading, connectionStatus, useHttpFallback, threadId,
          responseRef, reconnectAttempts, socks, timers, http, updQ, life>>

\* C5: in fallback mode a send with non-empty trimmed text and no reply pending
\* is accepted whatever the connection status and the sockets; the message goes
\* out through the unary HTTP call and nothing is written to a socket.  When
\* the call succeeds exactly one assistant message is appended and no reply is
\* pending.
C5_FallbackSend ==
    /\ [][(lastOp'.op = "send" /\ useHttpFallback /\ ~isLoading
              /\ Trim(lastOp'.t) # <<>>) =>
            /\ lastOp'.a = 2
            /\ http' = http + 1
            /\ socks' = socks
            /\ messages' = Append(messages, UMsg(Trim(lastOp'.t)))]_vars
    /\ [][lastOp'.op = "httpok" =>
            /\ messages' = Append(messages, AMsg(HttpReply))
            /\ ~isLoading']_vars

\* C5: a fallback send went out by HTTP while the status was not 'connected'
\* and no socket existed
C5_Witness ==
    /\ lastOp.op = "send" /\ lastOp.a = 2
    /\ useHttpFallback /\ connectionStatus # "connected" /\ socks = EmptyBag
    /\ http = 1

\* C6: a send is refused with no state change when the trimmed text is empty,
\* when a reply is pending, or when the manager streams and the status is not
\* 'connected'.
C6_SendRefused ==
    [][(/\ lastOp'.op = "send"
        /\ \/ Trim(lastOp'.t) = <<>>
           \/ isLoading
           \/ (~useHttpFallback /\ connectionStatus # "connected"))
       => (lastOp'.a = 0 /\ UNCHANGED prog)]_vars

\* C6: a send with text was refused because a reply was pending
C6_Witness ==
    /\ lastOp.op = "send" /\ lastOp.a = 0
    /\ Trim(lastOp.t) # <<>> /\ isLoading
    /\ (useHttpFallback \/ connectionStatus = "connected")

\* requests written to a socket or sent by HTTP whose reply can still arrive
RECURSIVE SumReqs(_)
SumReqs(S) ==
    IF S = {} THEN 0
    ELSE LET x == CHOOSE y \in S : TRUE
         IN x.reqs * CopiesIn(x, socks) + SumReqs(S \ {x})
Outstanding == http + SumReqs(BagToSet(socks))

\* C7: at most one reply is pending at any time: between the acceptance of a
\* send and the terminal signal of its reply no other send is accepted and no
\* second request is dispatched.
C7_OnePending ==
    /\ pend <= 1
    /\ Outstanding <= 1
    /\ (alive /\ pend = 1 => isLoading)

\* C7: a send was refused while the request of the accepted one was outstanding
C7_Witness ==
    /\ lastOp.op = "send" /\ lastOp.a = 0 /\ Trim(lastOp.t) # <<>>
    /\ pend = 1 /\ Outstanding = 1

\* C8: every connection attempt, the first and each reconnect, passes the
\* session id stored at that moment; it passes none only when that id is null.
C8_AttemptPassesSession ==
    (alive /\ lastOp.conn # -1) => lastOp.conn = threadId

\* C9: a session event with id X followed at once by another with the same X
\* leaves the manager as the first one left it: the stored id is X and the
\* reconnect attempts are 0.
C9_SessionIdempotent ==
    [][(alive /\ lastOp.op = "session" /\ lastOp'.op = "session"
          /\ lastOp'.a = lastOp.a) =>
        /\ UNCHANGED prog
        /\ threadId' = lastOp.a
        /\ reconnectAttempts' = 0]_vars

\* C9: a session event has followed a session event with the same id
C9_Witness ==
    /\ alive /\ lastOp.op = "session" /\ lastOp.t = <<"again">>
    /\ threadId = lastOp.a /\ reconnectAttempts = 0

\* C10: teardown closes the active socket and cancels the pending reconnect
\* timers: once the component is unmounted no timer is pending or fires and no
\* connection is created.
C10_Teardown ==
    ~alive =>
        /\ \A s \in Cur(socks) : s.phase \notin {"connecting", "open"}
        /\ timers = EmptyBag
        /\ lastOp.op # "timer"
        /\ lastOp.conn = -1

\* C11: at most one reconnect timer is outstanding in every reachable state.
C11_OneTimer ==
    BagCardinality(timers) <= 1

\* C12: in streaming mode, when the connection closes unexpectedly while the
\* status is 'connected', the status becomes 'disconnected' and a new connection
\* attempt follows (status 'connecting'): the manager does not stay disconnected.
C12_CloseReconnects ==
    /\ [](lastOp.op = "close" /\ lastOp.a = 1 => connectionStatus = "disconnected")
    /\ (lastOp.op = "close" /\ lastOp.a = 1)
           ~> (connectionStatus = "connecting" \/ ~alive)

\* C13: each transport error increments reconnectAttempts; when the new value
\* is below maxReconnectAttempts the status becomes 'error', exactly one
\* reconnect is scheduled and the mode does not change; when it reaches
\* maxReconnectAttempts the mode is fallback, the status is 'connected' and no
\* reconnect is scheduled.  A successful open sets reconnectAttempts to 0.
C13_ErrorPolicy ==
    [][/\ (alive /\ lastOp'.op = "sockerror") =>
            /\ reconnectAttempts' = reconnectAttempts + 1
            /\ IF reconnectAttempts' < maxReconnectAttempts
               THEN /\ connectionStatus' = "error"
                    /\ BagCardinality(timers') = BagCardinality(timers) + 1
                    /\ useHttpFallback' = useHttpFallback
               ELSE /\ useHttpFallback'
                    /\ connectionStatus' = "connected"
                    /\ timers' = timers
       /\ lastOp'.op = "open" => reconnectAttempts' = 0]_vars

\* C13: the first transport error of a streaming manager scheduled a reconnect
C13_Witness ==
    /\ alive /\ lastOp.op = "sockerror" /\ lastOp.a = 0
    /\ reconnectAttempts = 1 /\ connectionStatus = "error"
    /\ ~useHttpFallback /\ BagCardinality(timers) = 1

\* C14: a protocol error (an error event on the socket, or a rejected unary
\* call) appends exactly one assistant error message, ends the pending reply and
\* leaves the connection status, the transport mode and the session id unchanged.
\* The list is taken as React renders it: the queued updaters applied (Flush).
C14_ProtocolError ==
    [][/\ (alive /\ lastOp'.op = "error") =>
            /\ Flush(messages', updQ', responseRef') =
                   Append(Flush(messages, updQ, responseRef'), ErrMsg(ErrText))
            /\ ~isLoading'
            /\ UNCHANGED <<connectionStatus, useHttpFallback, threadId>>
       /\ (alive /\ lastOp'.op = "httpfail") =>
            /\ messages' = Append(messages, ErrMsg(HttpErrText))
            /\ ~isLoading'
            /\ UNCHANGED <<connectionStatus, useHttpFallback, threadId>>]_vars

\* C14: an error event ended a streamed reply after its first fragment was shown
C14_Witness ==
    /\ alive /\ lastOp.op = "error" /\ updQ = <<>>
    /\ Len(messages) = 3 /\ messages[3] = ErrMsg(ErrText)
    /\ messages[2] = AMsg(Frag(1))
    /\ ~isLoading /\ connectionStatus = "connected" /\ ~useHttpFallback

\* C15: an accepted send appends, in the same step, exactly one user message
\* with the trimmed text at the end of the list, marks a reply pending and
\* dispatches exactly one request through the transport of the current mode.
C15_AcceptedSend ==
    [][(lastOp'.op = "send" /\ lastOp'.a # 0) =>
        /\ messages' = Append(messages, UMsg(Trim(lastOp'.t)))
        /\ isLoading'
        /\ Outstanding' = Outstanding + 1
        /\ IF useHttpFallback THEN http' = http + 1 ELSE http' = http]_vars

\* C16: connect() changes nothing when the manager is already connected (the
\* socket of wsRef is open) or already in fallback mode: it opens no socket,
\* closes none and leaves session id, reconnectAttempts and messages unchanged.
C16_ConnectIdempotent ==
    [][(alive /\ lastOp'.op = "timer" /\ (useHttpFallback \/ IsOpen(socks))) =>
        /\ socks' = socks
        /\ UNCHANGED <<threadId, reconnectAttempts, messages>>]_vars

\* C17: a cleared event from the backend empties the message list in every
\* state, whether or not a local clear() came before it.  The list is taken as
\* React renders it after the event.
C17_ClearedEmpties ==
    (alive /\ lastOp.op = "cleared") => Flush(messages, updQ, responseRef) = <<>>

\* C17: a cleared event arrived while the list held messages, so with no local
\* clear() before it
C17_Witness ==
    /\ alive /\ lastOp.op = "cleared" /\ lastOp.a = 1
    /\ messages = <<>> /\ updQ = <<>>

\* C18: clear() in fallback mode sends nothing to the backend; clear() in
\* streaming mode writes '__clear__' to the socket, and when the socket is not
\* open nothing is written and the local clear still completes.
C18_ClearFrame ==
    [][lastOp'.op = "clear" =>
        /\ http' = http
        /\ useHttpFallback => lastOp'.a = 0
        /\ (~useHttpFallback /\ IsOpen(socks)) => lastOp'.a = 1
        /\ (~useHttpFallback /\ ~IsOpen(socks)) =>
              (lastOp'.a = 0 /\ messages' = <<>> /\ threadId' = Null)]_vars

\* C18: clear() ran in streaming mode with no open socket and completed locally
C18_Witness ==
    /\ lastOp.op = "clear" /\ lastOp.a = 0 /\ ~useHttpFallback
    /\ messages = <<>> /\ threadId = Null /\ connectionStatus = "connecting"

IsPrefix(a, b) == Len(a) <= Len(b) /\ SubSeq(b, 1, Len(a)) = a

\* the list m2 comes from the list m by appending messages at the end and, when
\* ext holds, by appending text to the content of the assistant message that
\* was last in m
Grows(m, m2, ext) ==
    /\ Len(m2) >= Len(m)
    /\ \A i \in 1..(Len(m) - 1) : m2[i] = m[i]
    /\ m # <<>> =>
         \/ m2[Len(m)] = m[Len(m)]
         \/ /\ ext
            /\ m[Len(m)].role = "assistant" /\ m2[Len(m)].role = "assistant"
            /\ IsPrefix(m[Len(m)].content, m2[Len(m)].content)

\* C19: between two wholesale clears the message list changes only by appending
\* a message at the end or by appending text to the content of the last message
\* when it is the assistant reply being streamed; no other message changes, is
\* removed or is moved.
C19_MessagesGrow ==
    [][messages' = <<>> \/ Grows(messages, messages', reply.st # "none")]_vars

\* the budget of the run leaves room in the list for the messages of one reply
Headroom == Len(messages) + Len(updQ) + 2 <= lim.msgs

\* C20: whenever a reply is pending it eventually stops being pending, also when
\* the socket closes or fails before the terminal signal and when the manager
\* switches to fallback meanwhile (so that a send with text is accepted again).
C20_PendingEnds ==
    (alive /\ isLoading /\ Headroom) ~> (~isLoading \/ ~alive)

\* C21: if the streaming transport is dead (no connection attempt has opened),
\* then, the reconnect timer and the failure of each attempt being scheduled
\* fairly, a mounted manager enters fallback mode, and it never counts
\* maxReconnectAttempts failed attempts without having entered it.
C21_DeadTransport ==
    /\ (mounted /\ errRun.d) ~> (useHttpFallback \/ ~alive \/ ~errRun.d)
    /\ [](alive /\ errRun.d /\ errRun.o >= maxReconnectAttempts => useHttpFallback)

\* C21: the manager entered fallback after maxReconnectAttempts failed attempts,
\* none having opened
C21_Witness ==
    /\ alive /\ useHttpFallback /\ reconnectAttempts = maxReconnectAttempts
    /\ errRun.d /\ errRun.o = maxReconnectAttempts
    /\ timers = EmptyBag /\ connectionStatus = "connected"


\* The status of the specification's state machine, read off the component:
\* fallback once useHttpFallback is set, idle before the first connect(),
\* otherwise the connectionStatus shown.
Status ==
    IF useHttpFallback THEN "fallback"
    ELSE IF life = "new" THEN "idle"
    ELSE connectionStatus

Transitions ==
    { <<"idle", "connecting">>, <<"connecting", "connected">>,
      <<"connecting", "error">>, <<"error", "connecting">>,
      <<"error", "fallback">>, <<"connected", "disconnected">>,
      <<"disconnected", "connecting">> }

\* C22: while the component is mounted, every change of the connection status
\* is one of idle->connecting, connecting->connected, connecting->error,
\* error->connecting, error->fallback, connected->disconnected,
\* disconnected->connecting.
C22_StatusTransitions ==
    [][alive' /\ Status' # Status => <<Status, Status'>> \in Transitions]_vars


\* C23: a payload that cannot be decoded and an event of a type the handler
\* has no case for (images) leave the message list (shown and queued), the
\* pending flag, the session id, the status and reconnectAttempts as they
\* were, and put no error message in the list.
C23_IgnoredEvent ==
    [][lastOp'.op = "ignored" =>
          /\ UNCHANGED <<messages, updQ, responseRef, isLoading, threadId,
                         connectionStatus, useHttpFallback, reconnectAttempts>>
          /\ UNCHANGED <<socks, timers>>]_vars

\* C23: an undecodable payload arrived in the middle of a streamed reply
C23_Witness ==
    /\ lastOp.op = "ignored" /\ lastOp.a = 2
    /\ alive /\ isLoading /\ reply.st = "open" /\ reply.n > 0
    /\ messages # <<>> /\ connectionStatus = "connected"


\* C24: a session event received by the mounted component changes only the
\* session id and reconnectAttempts: the socket wsRef refers to is the same
\* socket in the same state, no connection attempt is made, and the status,
\* the message list and the pending flag are unchanged.
C24_SessionFrame ==
    [][alive /\ lastOp'.op = "session" =>
          /\ Cur(socks') = Cur(socks)
          /\ lastOp'.conn = -1
          /\ UNCHANGED <<connectionStatus, messages, updQ, isLoading>>]_vars


\* C25: in streaming mode the status of the mounted component is 'connected'
\* only when the socket wsRef refers to is open, and an open, close or error
\* callback of a socket wsRef no longer refers to (the step leaves wsRef's
\* socket as it was) changes neither the status nor reconnectAttempts nor the
\* message list.
C25_StatusAgrees ==
    /\ [](alive /\ ~useHttpFallback /\ connectionStatus = "connected" => IsOpen(socks))
    /\ [][alive /\ lastOp'.op \in {"open", "close", "sockerror"}
             /\ Cur(socks) # {} /\ Cur(socks') = Cur(socks) =>
             UNCHANGED <<connectionStatus, reconnectAttempts, messages>>]_vars


\* the sockets that are opening or open
Active(sk) == {s \in BagToSet(sk) : s.phase \in {"connecting", "open"}}

\* C26: while the component is mounted at most one WebSocket is opening or
\* open, and no step taken in fallback mode creates a WebSocket.
C26_OneConnection ==
    /\ [](alive => /\ Cardinality(Active(socks)) <= 1
                   /\ \A s \in Active(socks) : CopiesIn(s, socks) = 1)
    /\ [][alive /\ useHttpFallback => lastOp'.conn = -1]_vars


\* C27: when the reply to a send issued before a clear arrives right after the
\* clear (the unary response, or a streamed token), the session id stays
\* reset and the list React renders stays empty.
C27_ClearIsFinal ==
    [][alive' /\ lastOp.op = "clear" /\ lastOp'.op \in {"httpok", "token"} =>
          /\ threadId' = Null
          /\ Flush(messages', updQ', responseRef') = <<>>]_vars

====
